---- MODULE Spec2Model ----
(***************************************************************************)
(* Model of geofileops/util/vector_util/geometry.py: the Lang sliding      *)
(* window simplification (simplify_coords_lang_idx), the collection        *)
(* normalizer (collect, collection_extract), the ring filter               *)
(* (remove_inner_rings) and the dispatch of simplify_ext.                  *)
(***************************************************************************)
EXTENDS Integers, Sequences, FiniteSets, TLC

VARIABLES
    op,                      \* the function under execution
    pc,                      \* position in that function
    coords,                  \* simplify_coords_lang_idx: input coordinates
    tolerance,               \* simplify_coords_lang_idx: distance tolerance
    lookahead,               \* simplify_coords_lang_idx: lookahead parameter
    window_size,
    mask,
    window_start,
    window_end,
    all_points_in_tolerance,
    ready,
    idx_to_keep_arr,         \* the returned index list
    geometry,                \* geometry argument of the geometry functions
    geometry_list,           \* collect: the list argument
    primitivetype,           \* collection_extract: the primitive type
    min_area_to_keep,        \* remove_inner_rings: {} is None, {t} is t
    algorithm,               \* simplify_ext: the algorithm
    preserve_topology,       \* simplify_ext: the flag
    keep_points_on,          \* simplify_ext: {} is None, {S} covers the points S
    simplification_installed,\* whether the package simplification imports
    coords_simplified,       \* simplify_linestring: the local coords_simplified
    result_geom,             \* simplify_ext: the local result_geom
    result                   \* the value returned or the exception raised

lang_vars == <<coords, tolerance, lookahead, window_size, mask, window_start,
               window_end, all_points_in_tolerance, ready, idx_to_keep_arr>>

geom_vars == <<geometry, geometry_list, primitivetype, min_area_to_keep,
               algorithm, preserve_topology, keep_points_on,
               simplification_installed, coords_simplified, result_geom,
               result>>

vars == <<op, pc, lang_vars, geom_vars>>

----------------------------------------------------------------------------
(* Bounds of the model *)

MaxPoints == 4      \* longest coordinate sequence
MaxTolerance == 1   \* tolerances are 0..MaxTolerance
MaxLookahead == 3   \* lookaheads are -1 and 0..MaxLookahead
MaxListLen == 3     \* longest list passed to collect
MaxParts == 2       \* most parts of a multi-part geometry or collection
MaxRings == 3       \* most interior rings of a polygon
MaxThreshold == 3   \* min_area_to_keep is None or in 0..MaxThreshold

----------------------------------------------------------------------------
(* Geometry values *)

\* A geometry is a record of its geom_type (tag), its coordinates (the
\* exterior ring for a Polygon), its interior rings and its parts.
Geom(tag, cs, rings, parts) ==
    [tag |-> tag, coords |-> cs, interiors |-> rings, parts |-> parts]

None == Geom("None", <<>>, <<>>, <<>>)

\* A raised exception, as the outcome of a call
Raise(msg) ==
    [tag |-> "Exception", coords |-> <<>>, interiors |-> <<>>,
     parts |-> <<>>, msg |-> msg]

IsException(g) == g.tag = "Exception"

Point(cs) == Geom("Point", cs, <<>>, <<>>)
LineString(cs) == Geom("LineString", cs, <<>>, <<>>)
Polygon(shell, holes) == Geom("Polygon", shell, holes, <<>>)
MultiPoint(parts) == Geom("MultiPoint", <<>>, <<>>, parts)
MultiLineString(parts) == Geom("MultiLineString", <<>>, <<>>, parts)
MultiPolygon(parts) == Geom("MultiPolygon", <<>>, <<>>, parts)
GeometryCollection(parts) == Geom("GeometryCollection", <<>>, <<>>, parts)

\* class GeometryType: the member names
GeometryType ==
    {"MISSING", "POINT", "LINESTRING", "LINEARRING", "POLYGON", "MULTIPOINT",
     "MULTILINESTRING", "MULTIPOLYGON", "GEOMETRYCOLLECTION"}

\* class PrimitiveType: the member names
PrimitiveType == {"POINT", "LINESTRING", "POLYGON"}

\* geom_type.upper()
Upper(tag) ==
    CASE tag = "Point" -> "POINT"
      [] tag = "LineString" -> "LINESTRING"
      [] tag = "LinearRing" -> "LINEARRING"
      [] tag = "Polygon" -> "POLYGON"
      [] tag = "MultiPoint" -> "MULTIPOINT"
      [] tag = "MultiLineString" -> "MULTILINESTRING"
      [] tag = "MultiPolygon" -> "MULTIPOLYGON"
      [] tag = "GeometryCollection" -> "GEOMETRYCOLLECTION"

\* to_primitivetype, on the member names of GeometryType
to_primitivetype(geometrytype) ==
    IF geometrytype \in {"POINT", "MULTIPOINT"} THEN "POINT"
    ELSE IF geometrytype \in {"LINESTRING", "MULTILINESTRING"} THEN "LINESTRING"
    ELSE IF geometrytype \in {"POLYGON", "MULTIPOLYGON"} THEN "POLYGON"
    ELSE "Exception"

\* The first exception in a sequence of outcomes, None if there is none
FirstException(outcomes) ==
    IF \E i \in 1..Len(outcomes) : IsException(outcomes[i])
    THEN outcomes[CHOOSE i \in 1..Len(outcomes) :
                      /\ IsException(outcomes[i])
                      /\ \A j \in 1..(i - 1) : ~IsException(outcomes[j])]
    ELSE None

GeomIdle ==
    /\ geometry = None
    /\ geometry_list = <<>>
    /\ primitivetype = "POLYGON"
    /\ min_area_to_keep = {}
    /\ algorithm = "rdp"
    /\ preserve_topology = TRUE
    /\ keep_points_on = {}
    /\ simplification_installed = TRUE
    /\ coords_simplified = None
    /\ result_geom = None
    /\ result = None

LangIdle ==
    /\ coords = <<>>
    /\ tolerance = 0
    /\ lookahead = -1
    /\ window_size = 0
    /\ mask = <<>>
    /\ window_start = 0
    /\ window_end = 0
    /\ all_points_in_tolerance = TRUE
    /\ ready = FALSE
    /\ idx_to_keep_arr = <<>>

----------------------------------------------------------------------------
(* collect *)

\* line 204: remove all None geometries
FilterNone(list) == SelectSeq(list, LAMBDA g : g # None)

\* lines 213-221: the type of the collection to create
ResultCollectionType(list) ==
    LET first == Upper(list[1].tag)
    IN  IF \A i \in 1..Len(list) : Upper(list[i].tag) = first
        THEN first
        ELSE "GEOMETRYCOLLECTION"

CollectSingleMutant(list) ==
    LET t == to_primitivetype(Upper(list[1].tag))
    IN  IF t = "POINT" THEN MultiPoint(list)
        ELSE IF t = "LINESTRING" THEN MultiLineString(list)
        ELSE IF t = "POLYGON" THEN MultiPolygon(list)
        ELSE GeometryCollection(list)

\* line 210: a list of one element gives that element
CollectSingle(list) == list[1]

collect(list) ==
    LET filtered == FilterNone(list)
    IN  IF Len(filtered) = 0
        THEN Raise("geometry_list should not be None or Empty")
        ELSE IF Len(filtered) = 1
        THEN CollectSingle(filtered)
        ELSE LET result_collection_type == ResultCollectionType(filtered)
             IN  IF result_collection_type = "POINT"
                 THEN MultiPoint(filtered)
                 ELSE IF result_collection_type = "LINESTRING"
                 THEN MultiLineString(filtered)
                 ELSE IF result_collection_type = "POLYGON"
                 THEN MultiPolygon(filtered)
                 ELSE IF result_collection_type = "GEOMETRYCOLLECTION"
                 THEN GeometryCollection(filtered)
                 ELSE Raise("Unsupported geometry type")

\* Sample geometries
CoordA == <<0, 0>>
CoordB == <<1, 0>>
CoordC == <<2, 0>>
CoordD == <<1, 1>>
RingA == <<CoordA, CoordB, CoordD, CoordA>>
RingB == <<CoordB, CoordC, CoordD, CoordB>>
PointA == Point(<<CoordA>>)
PointB == Point(<<CoordB>>)
LineAB == LineString(<<CoordA, CoordB>>)
LineABC == LineString(<<CoordA, CoordD, CoordC>>)
PolygonA == Polygon(RingA, <<>>)
PolygonB == Polygon(RingB, <<>>)
MultiPointAB == MultiPoint(<<PointA, PointB>>)
MultiLineAB == MultiLineString(<<LineAB, LineABC>>)
MultiPolygonA == MultiPolygon(<<PolygonA>>)
MultiPolygonAB == MultiPolygon(<<PolygonA, PolygonB>>)
CollectionPL == GeometryCollection(<<PointA, LineAB>>)

SeqsUpTo(S, n) == UNION {[1..k -> S] : k \in 0..n}

CollectElements ==
    {None, PointA, PointB, LineAB, PolygonA, PolygonB, MultiPointAB,
     MultiLineAB, MultiPolygonA, MultiPolygonAB, CollectionPL}

CollectInit ==
    /\ op = "collect"
    /\ pc = "start"
    /\ geometry_list \in SeqsUpTo(CollectElements, MaxListLen)
    /\ geometry = None
    /\ primitivetype = "POLYGON"
    /\ min_area_to_keep = {}
    /\ algorithm = "rdp"
    /\ preserve_topology = TRUE
    /\ keep_points_on = {}
    /\ simplification_installed = TRUE
    /\ coords_simplified = None
    /\ result_geom = None
    /\ result = None
    /\ LangIdle

\* lines 203-233
Collect ==
    /\ op = "collect" /\ pc = "start"
    /\ result' = collect(geometry_list)
    /\ pc' = "done"
    /\ UNCHANGED <<op, geometry, geometry_list, primitivetype,
                   min_area_to_keep, algorithm, preserve_topology,
                   keep_points_on, simplification_installed,
                   coords_simplified, result_geom, lang_vars>>

CollectNext == Collect

CollectSpec == CollectInit /\ [][CollectNext]_vars

----------------------------------------------------------------------------
(* collection_extract *)

\* lines 174-182: the empty geometry of the primitive type
EmptyOf(p) ==
    IF p = "POINT" THEN Point(<<>>)
    ELSE IF p = "LINESTRING" THEN LineString(<<>>)
    ELSE IF p = "POLYGON" THEN Polygon(<<>>, <<>>)
    ELSE Raise("Invalid primitive type")

RECURSIVE collection_extract(_, _)
collection_extract(g, p) ==
    IF g.tag \in {"Point", "MultiPoint"}
    THEN IF p = "POINT" THEN g ELSE EmptyOf(p)
    ELSE IF g.tag \in {"LineString", "LinearRing", "MultiLineString"}
    THEN IF p = "LINESTRING" THEN g ELSE EmptyOf(p)
    ELSE IF g.tag \in {"Polygon", "MultiPolygon"}
    THEN IF p = "POLYGON" THEN g ELSE EmptyOf(p)
    ELSE IF g.tag = "GeometryCollection"
    THEN LET returngeoms ==
                 [i \in 1..Len(g.parts) |-> collection_extract(g.parts[i], p)]
         IN  IF FirstException(returngeoms) # None
             THEN FirstException(returngeoms)
             ELSE IF Len(returngeoms) > 0
             THEN collect(returngeoms)
             ELSE EmptyOf(p)
    ELSE Raise("Invalid geometry")

\* lines 125-132
collection_extract_polygon(g) ==
    LET extracted == collection_extract(g, "POLYGON")
    IN  IF IsException(extracted) THEN extracted
        ELSE IF extracted.tag \in {"Polygon", "MultiPolygon"} THEN extracted
        ELSE Raise("AssertionError")

ExtractLeaves ==
    {PointA, LineAB, PolygonA, PolygonB, MultiPolygonA, MultiPolygonAB}

Collections(S, n) == {GeometryCollection(parts) : parts \in SeqsUpTo(S, n)}

\* Collections of leaves, and collections of one or two of those or leaves
ExtractGeometries ==
    LET level1 == Collections(ExtractLeaves, MaxParts)
    IN  ExtractLeaves \cup level1 \cup Collections(ExtractLeaves \cup level1, 2)

ExtractInit ==
    /\ op = "collection_extract"
    /\ pc = "start"
    /\ geometry \in ExtractGeometries
    /\ primitivetype \in PrimitiveType
    /\ geometry_list = <<>>
    /\ min_area_to_keep = {}
    /\ algorithm = "rdp"
    /\ preserve_topology = TRUE
    /\ keep_points_on = {}
    /\ simplification_installed = TRUE
    /\ coords_simplified = None
    /\ result_geom = None
    /\ result = None
    /\ LangIdle

\* lines 134-182
CollectionExtract ==
    /\ op = "collection_extract" /\ pc = "start"
    /\ result' = collection_extract(geometry, primitivetype)
    /\ pc' = "done"
    /\ UNCHANGED <<op, geometry, geometry_list, primitivetype,
                   min_area_to_keep, algorithm, preserve_topology,
                   keep_points_on, simplification_installed,
                   coords_simplified, result_geom, lang_vars>>

\* lines 134-182, called on the value the first call returned
CollectionExtractAgain ==
    /\ op = "collection_extract" /\ pc = "done"
    /\ ~IsException(result)
    /\ geometry' = result
    /\ result' = collection_extract(result, primitivetype)
    /\ pc' = "again"
    /\ UNCHANGED <<op, geometry_list, primitivetype, min_area_to_keep,
                   algorithm, preserve_topology, keep_points_on,
                   simplification_installed, coords_simplified, result_geom,
                   lang_vars>>

ExtractNext == CollectionExtract \/ CollectionExtractAgain

ExtractSpec == ExtractInit /\ [][ExtractNext]_vars

----------------------------------------------------------------------------
(* simplify_coords_lang_idx *)

Abs(v) == IF v < 0 THEN -v ELSE v

Min(a, b) == IF a <= b THEN a ELSE b

\* Three collinear points and one point off their line
CoordSet == {<<0, 0>>, <<1, 0>>, <<2, 0>>, <<1, 1>>}

\* line_arr[i, 0] and line_arr[i, 1] for the 0-based index i
LineX(line_arr, i) == line_arr[i + 1][1]
LineY(line_arr, i) == line_arr[i + 1][2]

\* The quotient |num| / sqrt(den2) is kept as its two terms: num is the
\* absolute cross product, den2 the squared length of the line segment.
point_line_distance(point_x, point_y, line_x1, line_y1, line_x2, line_y2) ==
    [num  |-> Abs((line_x2 - line_x1) * (line_y1 - point_y)
                  - (line_x1 - point_x) * (line_y2 - line_y1)),
     den2 |-> (line_x2 - line_x1) * (line_x2 - line_x1)
              + (line_y2 - line_y1) * (line_y2 - line_y1)]

\* math.isnan(distance): 0.0 / 0.0
IsNaN(distance) == distance.den2 = 0 /\ distance.num = 0

\* distance > tolerance, for a distance that is not NaN (x / 0.0 is +inf)
ExceedsTolerance(distance, tol) ==
    \/ distance.den2 = 0 /\ distance.num > 0
    \/ distance.den2 > 0 /\ distance.num * distance.num > tol * tol * distance.den2

WindowDistance(line_arr, i, w_start, w_end) ==
    point_line_distance(LineX(line_arr, i), LineY(line_arr, i),
                        LineX(line_arr, w_start), LineY(line_arr, w_start),
                        LineX(line_arr, w_end), LineY(line_arr, w_end))

AllPointsInToleranceMutant(line_arr, tol, w_start, w_end) ==
    \A i \in (w_start + 1)..(w_end - 1) :
        ~ExceedsTolerance(WindowDistance(line_arr, i, w_start, w_end), tol)

\* The for loop over range(window_start+1, window_end), with its break
AllPointsInTolerance(line_arr, tol, w_start, w_end) ==
    \A i \in (w_start + 1)..(w_end - 1) :
        LET distance == WindowDistance(line_arr, i, w_start, w_end)
        IN  ~(IsNaN(distance) \/ ExceedsTolerance(distance, tol))

WindowSize(la, nb_points) ==
    IF la = -1 THEN nb_points - 1 ELSE Min(la, nb_points - 1)

MarkWindowEndMutant(m, w_start, w_end) == [m EXCEPT ![w_start] = TRUE]

\* mask[window_end] = True
MarkWindowEnd(m, w_start, w_end) == [m EXCEPT ![w_end] = TRUE]

NextWindowEndMutant(w_start, w_size, nb_points) == w_start + w_size

\* window_end = window_start + window_size, clamped to nb_points - 1
NextWindowEnd(w_start, w_size, nb_points) ==
    IF w_start + w_size >= nb_points THEN nb_points - 1 ELSE w_start + w_size

RECURSIVE NonZeroFrom(_, _, _)
NonZeroFrom(m, i, nb_points) ==
    IF i >= nb_points THEN <<>>
    ELSE (IF m[i] THEN <<i>> ELSE <<>>) \o NonZeroFrom(m, i + 1, nb_points)

\* mask.nonzero()[0]
NonZero(m, nb_points) == NonZeroFrom(m, 0, nb_points)

LangInit ==
    /\ op = "simplify_coords_lang_idx"
    /\ pc = "start"
    /\ coords \in UNION {[1..n -> CoordSet] : n \in 1..MaxPoints}
    /\ tolerance \in 0..MaxTolerance
    /\ lookahead \in {-1} \cup (0..MaxLookahead)
    /\ window_size = 0
    /\ mask = <<>>
    /\ window_start = 0
    /\ window_end = 0
    /\ all_points_in_tolerance = TRUE
    /\ ready = FALSE
    /\ idx_to_keep_arr = <<>>
    /\ GeomIdle

\* lines 526-540: prepare lookahead, mask and window
LangPrepare ==
    /\ op = "simplify_coords_lang_idx" /\ pc = "start"
    /\ LET nb_points == Len(coords)
           w_size == WindowSize(lookahead, nb_points)
       IN  /\ window_size' = w_size
           /\ mask' = [i \in 0..(nb_points - 1) |-> i = 0]
           /\ window_start' = 0
           /\ window_end' = w_size
           /\ ready' = FALSE
    /\ pc' = "check"
    /\ UNCHANGED <<op, coords, tolerance, lookahead, all_points_in_tolerance,
                   idx_to_keep_arr,
                   geom_vars>>

\* lines 541-553: loop test and the distance check of the window
LangCheckWindow ==
    /\ op = "simplify_coords_lang_idx" /\ pc = "check"
    /\ ready = FALSE
    /\ all_points_in_tolerance' =
           AllPointsInTolerance(coords, tolerance, window_start, window_end)
    /\ pc' = "move"
    /\ UNCHANGED <<op, coords, tolerance, lookahead, window_size, mask,
                   window_start, window_end, ready, idx_to_keep_arr,
                   geom_vars>>

\* lines 556-558: shrink the window
LangShrinkWindow ==
    /\ op = "simplify_coords_lang_idx" /\ pc = "move"
    /\ ~all_points_in_tolerance
    /\ window_end' = window_end - 1
    /\ pc' = "check"
    /\ UNCHANGED <<op, coords, tolerance, lookahead, window_size, mask,
                   window_start, all_points_in_tolerance, ready,
                   idx_to_keep_arr,
                   geom_vars>>

\* lines 559-570: retain window_end and move the window forward
LangMoveWindow ==
    /\ op = "simplify_coords_lang_idx" /\ pc = "move"
    /\ all_points_in_tolerance
    /\ LET nb_points == Len(coords)
       IN  /\ mask' = MarkWindowEnd(mask, window_start, window_end)
           /\ window_start' = window_end
           /\ ready' = (window_end = nb_points - 1)
           /\ window_end' = NextWindowEnd(window_end, window_size, nb_points)
    /\ pc' = "check"
    /\ UNCHANGED <<op, coords, tolerance, lookahead, window_size,
                   all_points_in_tolerance, idx_to_keep_arr,
                   geom_vars>>

\* lines 541, 572-579: the loop ends, the mask is converted to indices
LangReturn ==
    /\ op = "simplify_coords_lang_idx" /\ pc = "check"
    /\ ready = TRUE
    /\ idx_to_keep_arr' = NonZero(mask, Len(coords))
    /\ pc' = "done"
    /\ UNCHANGED <<op, coords, tolerance, lookahead, window_size, mask,
                   window_start, window_end, all_points_in_tolerance, ready,
                   geom_vars>>

LangNext ==
    \/ LangPrepare
    \/ LangCheckWindow
    \/ LangShrinkWindow
    \/ LangMoveWindow
    \/ LangReturn

LangSpec == LangInit /\ [][LangNext]_vars

\* The loop is a sequential program: it always takes its next step.
LangFairSpec == LangSpec /\ WF_vars(LangNext)

----------------------------------------------------------------------------
(* simplify_ext *)

\* class SimplifyAlgorithm: the member values
SimplifyAlgorithm == {"rdp", "lang", "vw"}

\* line 330: the default lookahead
DefaultLookahead == 8

\* The arguments that simplify_ext hands down unchanged
SimplifyArgs(tol, alg, la, pt, kpo, installed) ==
    [tolerance |-> tol, algorithm |-> alg, lookahead |-> la,
     preserve_topology |-> pt, keep_points_on |-> kpo,
     simplification_installed |-> installed]

\* A LineString is valid when it is empty or has two distinct coordinates
IsValidLine(g) ==
    Len(g.coords) = 0 \/ Cardinality({g.coords[i] : i \in 1..Len(g.coords)}) >= 2

\* make_valid delegates to the geometry kernel: a valid geometry comes back
\* unchanged, an invalid Polygon as a Polygon, a MultiPolygon or a
\* GeometryCollection of its polygonal and its collapsed parts, a valid
\* LineString unchanged and a collapsed one as its Point, as an empty
\* LineString or as a MultiLineString.
make_valid(g) ==
    IF g.tag = "Polygon"
    THEN {g, MultiPolygonAB,
          GeometryCollection(<<PolygonA, LineAB>>),
          GeometryCollection(<<MultiPolygonAB, LineAB>>)}
    ELSE IF g.tag = "LineString"
    THEN IF IsValidLine(g)
         THEN {g}
         ELSE {Point(<<g.coords[1]>>), LineString(<<>>), MultiLineAB}
    ELSE {g}

\* The while loop of simplify_coords_lang_idx as a function of the window
RECURSIVE LangLoop(_, _, _, _, _, _)
LangLoop(line_arr, tol, w_size, m, w_start, w_end) ==
    IF AllPointsInTolerance(line_arr, tol, w_start, w_end)
    THEN IF w_end = Len(line_arr) - 1
         THEN MarkWindowEnd(m, w_start, w_end)
         ELSE LangLoop(line_arr, tol, w_size,
                       MarkWindowEnd(m, w_start, w_end), w_end,
                       NextWindowEnd(w_end, w_size, Len(line_arr)))
    ELSE LangLoop(line_arr, tol, w_size, m, w_start, w_end - 1)

\* simplify_coords_lang_idx, for one or more coordinates and a lookahead
\* that is -1 or positive
simplify_coords_lang_idx(cs, tol, la) ==
    LET nb_points == Len(cs)
        w_size == WindowSize(la, nb_points)
    IN  NonZero(LangLoop(cs, tol, w_size,
                         [i \in 0..(nb_points - 1) |-> i = 0], 0, w_size),
                nb_points)

RECURSIVE SortedSeq(_)
\* sorted(set(...)): the ascending list of a set of indices
SortedSeq(S) ==
    IF S = {} THEN <<>>
    ELSE LET lowest == CHOOSE v \in S : \A w \in S : v <= w
         IN  <<lowest>> \o SortedSeq(S \ {lowest})

Range(f) == {f[i] : i \in DOMAIN f}

\* simplification.simplify_coords_idx and simplify_coords_vw_idx: index
\* selection of the simplification package, whose code is not part of this
\* module: any ascending list of indices of the coordinates
ExternalIdxChoices(cs) ==
    {SortedSeq(S) : S \in SUBSET (0..(Len(cs) - 1))}

CoordsList(cs) == [tag |-> "list", coords |-> cs]

SimplifyIdxChoicesMutant(cs, a) ==
    IF a.algorithm \in {"rdp", "vw"}
    THEN {CoordsList(idx) : idx \in ExternalIdxChoices(cs)}
    ELSE {CoordsList(simplify_coords_lang_idx(cs, a.tolerance, a.lookahead))}

\* lines 406-414: the indexes of the coordinates to keep, or the exception
SimplifyIdxChoices(cs, a) ==
    IF a.algorithm = "rdp"
    THEN {CoordsList(idx) : idx \in ExternalIdxChoices(cs)}
    ELSE IF a.algorithm = "vw"
    THEN {CoordsList(idx) : idx \in ExternalIdxChoices(cs)}
    ELSE IF a.algorithm = "lang"
    THEN {CoordsList(simplify_coords_lang_idx(cs, a.tolerance, a.lookahead))}
    ELSE {Raise("Unsupported algorithm")}

CoordsOnBorderIdxMutant(cs, kpo) == <<>>

\* lines 416-420: the indexes of the coordinates on keep_points_on
CoordsOnBorderIdx(cs, kpo) ==
    IF kpo = {} THEN <<>>
    ELSE LET covered == CHOOSE S \in kpo : TRUE
         IN  SortedSeq({i \in 0..(Len(cs) - 1) : cs[i + 1] \in covered})

\* lines 422-424: the coordinates at the indexes of both lists
CoordsToKeep(cs, coords_simplify_idx, coords_on_border_idx) ==
    LET coords_to_keep ==
            SortedSeq(Range(coords_simplify_idx \o coords_on_border_idx))
    IN  [k \in 1..Len(coords_to_keep) |-> cs[coords_to_keep[k] + 1]]

\* lines 405-424: the outcomes of the inline function simplify_coords
simplify_coords(cs, a) ==
    {IF IsException(choice) THEN choice
     ELSE CoordsList(CoordsToKeep(cs, choice.coords,
                                  CoordsOnBorderIdx(cs, a.keep_points_on))) :
         choice \in SimplifyIdxChoices(cs, a)}

LineFromSimplifiedMutant(linestring, simplified, a) ==
    IF IsException(simplified) THEN simplified
    ELSE LineString(simplified.coords)

\* lines 398-403: the line for one outcome of simplify_coords
LineFromSimplified(linestring, simplified, a) ==
    IF IsException(simplified) THEN simplified
    ELSE IF a.preserve_topology /\ Len(simplified.coords) < 2
    THEN linestring
    ELSE LineString(simplified.coords)

\* lines 390-403: the outcomes of the inline function simplify_linestring
simplify_linestring(linestring, a) ==
    IF Len(linestring.coords) <= 2
    THEN {linestring}
    ELSE {LineFromSimplified(linestring, simplified, a) :
              simplified \in simplify_coords(linestring.coords, a)}

RECURSIVE Flatten(_)
Flatten(ss) == IF ss = <<>> THEN <<>> ELSE Head(ss) \o Flatten(Tail(ss))

\* lines 372-382: the interior rings kept for one choice of their
\* simplified coordinates
InteriorsSimplified(polygon, choice, a) ==
    Flatten([i \in 1..Len(polygon.interiors) |->
                 IF Len(choice[i].coords) >= 3
                 THEN <<choice[i].coords>>
                 ELSE IF a.preserve_topology
                 THEN <<polygon.interiors[i]>>
                 ELSE <<>>])

\* lines 369-388: the outcomes of the inline function simplify_polygon
simplify_polygon(polygon, a) ==
    LET exteriors == simplify_coords(polygon.coords, a)
        interiors ==
            [i \in 1..Len(polygon.interiors) |->
                 simplify_coords(polygon.interiors[i], a)]
        choices ==
            {c \in [1..Len(polygon.interiors) -> UNION Range(interiors)] :
                 \A i \in 1..Len(polygon.interiors) : c[i] \in interiors[i]}
        result_polys ==
            {Polygon(e.coords, InteriorsSimplified(polygon, c, a)) :
                 e \in exteriors, c \in choices}
    IN  IF \E e \in exteriors : IsException(e)
        THEN {e \in exteriors : IsException(e)}
        ELSE IF a.preserve_topology
        THEN UNION {{collection_extract_polygon(valid) :
                         valid \in make_valid(result_poly)} :
                        result_poly \in result_polys}
        ELSE result_polys

\* An outcome of simplify_ext: the local result_geom and the value returned
\* or the exception raised
Outcome(rg, r) == [result_geom |-> rg, result |-> r]

\* line 453: return make_valid(result_geom), unless an exception was raised
ReturnValid(result_geoms) ==
    UNION {IF IsException(rg) THEN {Outcome(rg, rg)}
           ELSE {Outcome(rg, valid) : valid \in make_valid(rg)} :
               rg \in result_geoms}

\* lines 360-365: rdp and vw need the package simplification
ImportFails(a) ==
    a.algorithm \in {"rdp", "vw"} /\ ~a.simplification_installed

RECURSIVE simplify_ext(_, _)
\* lines 359-365 and 426-453: the outcomes of simplify_ext
simplify_ext(g, a) ==
    IF ImportFails(a)
    THEN {Outcome(None, Raise("ImportError"))}
    ELSE IF g = None
    THEN {Outcome(None, Raise("geom input paramerter should not be None"))}
    ELSE IF g.tag = "Point"
    THEN {Outcome(None, g)}
    ELSE IF g.tag = "MultiPoint"
    THEN {Outcome(None, g)}
    ELSE IF g.tag \in {"LineString", "LinearRing"}
    THEN ReturnValid(simplify_linestring(g, a))
    ELSE IF g.tag = "Polygon"
    THEN ReturnValid(simplify_polygon(g, a))
    ELSE IF g.tag \in {"MultiLineString", "MultiPolygon", "GeometryCollection"}
    THEN LET children ==
                 [i \in 1..Len(g.parts) |->
                      {o.result : o \in simplify_ext(g.parts[i], a)}]
             simplified_geometries ==
                 {sg \in [1..Len(g.parts) -> UNION Range(children)] :
                      \A i \in 1..Len(g.parts) : sg[i] \in children[i]}
         IN  ReturnValid({IF FirstException(sg) # None
                          THEN FirstException(sg)
                          ELSE collect(sg) : sg \in simplified_geometries})
    ELSE {Outcome(None, Raise("Unsupported geom_type"))}

PolygonH == Polygon(<<CoordA, CoordC, CoordD, CoordA>>, <<RingA>>)

SimplifyLeaves == {PointA, MultiPointAB, LineAB, LineABC, PolygonA}

\* The children of the sampled collections
CollectionLeaves == {PointA, MultiPointAB, LineABC}

SimplifyGeometries ==
    {None, PolygonH, Geom("Unknown", <<>>, <<>>, <<>>),
     LineString(<<CoordA, CoordA>>)}
    \cup SimplifyLeaves
    \cup {MultiLineString(parts) : parts \in SeqsUpTo({LineAB, LineABC}, MaxParts)}
    \cup {MultiPolygon(parts) : parts \in SeqsUpTo({PolygonA}, MaxParts)}
    \cup Collections(CollectionLeaves, MaxParts)
    \cup {GeometryCollection(<<GeometryCollection(<<>>), LineABC>>),
          GeometryCollection(<<MultiLineAB, PolygonA>>),
          GeometryCollection(<<PointA, PolygonB>>)}

SimplifyInit ==
    /\ op = "simplify_ext"
    /\ pc = "start"
    /\ geometry \in SimplifyGeometries
    /\ tolerance \in {0, MaxTolerance}
    /\ algorithm \in SimplifyAlgorithm \cup {"other"}
    /\ lookahead = DefaultLookahead
    /\ preserve_topology \in BOOLEAN
    /\ keep_points_on \in {{}, {{CoordD}}}
    /\ simplification_installed \in BOOLEAN
    /\ coords_simplified = None
    /\ geometry_list = <<>>
    /\ primitivetype = "POLYGON"
    /\ min_area_to_keep = {}
    /\ result_geom = None
    /\ result = None
    /\ coords = <<>>
    /\ window_size = 0
    /\ mask = <<>>
    /\ window_start = 0
    /\ window_end = 0
    /\ all_points_in_tolerance = TRUE
    /\ ready = FALSE
    /\ idx_to_keep_arr = <<>>

\* lines 326-453; for a LineString that is simplified, coords_simplified
\* holds what simplify_coords returned to simplify_linestring
SimplifyExt ==
    /\ op = "simplify_ext" /\ pc = "start"
    /\ LET a == SimplifyArgs(tolerance, algorithm, lookahead,
                             preserve_topology, keep_points_on,
                             simplification_installed)
       IN  IF /\ ~ImportFails(a)
              /\ geometry.tag = "LineString"
              /\ Len(geometry.coords) > 2
           THEN \E simplified \in simplify_coords(geometry.coords, a) :
                    /\ coords_simplified' = simplified
                    /\ \E o \in ReturnValid({LineFromSimplified(
                                                 geometry, simplified, a)}) :
                           /\ result_geom' = o.result_geom
                           /\ result' = o.result
           ELSE /\ \E o \in simplify_ext(geometry, a) :
                       /\ result_geom' = o.result_geom
                       /\ result' = o.result
                /\ UNCHANGED coords_simplified
    /\ pc' = "done"
    /\ UNCHANGED <<op, geometry, geometry_list, primitivetype,
                   min_area_to_keep, algorithm, preserve_topology,
                   keep_points_on, simplification_installed, lang_vars>>

SimplifyNext == SimplifyExt

SimplifySpec == SimplifyInit /\ [][SimplifyNext]_vars

----------------------------------------------------------------------------
(* The retention step simplify_coords of simplify_ext, on its own *)

KeepPointsOnChoices == {{}, {{CoordD}}, {{CoordA, CoordD}}}

RetentionInit ==
    /\ op = "simplify_coords"
    /\ pc = "start"
    /\ coords \in UNION {[1..n -> CoordSet] : n \in 1..MaxPoints}
    /\ tolerance \in {0, MaxTolerance}
    /\ algorithm \in SimplifyAlgorithm \cup {"other"}
    /\ lookahead = DefaultLookahead
    /\ keep_points_on \in KeepPointsOnChoices
    /\ simplification_installed = TRUE
    /\ coords_simplified = None
    /\ preserve_topology = TRUE
    /\ geometry = None
    /\ geometry_list = <<>>
    /\ primitivetype = "POLYGON"
    /\ min_area_to_keep = {}
    /\ result_geom = None
    /\ result = None
    /\ window_size = 0
    /\ mask = <<>>
    /\ window_start = 0
    /\ window_end = 0
    /\ all_points_in_tolerance = TRUE
    /\ ready = FALSE
    /\ idx_to_keep_arr = <<>>

\* lines 405-424; idx_to_keep_arr holds coords_simplify_idx
SimplifyCoords ==
    /\ op = "simplify_coords" /\ pc = "start"
    /\ \E choice \in SimplifyIdxChoices(
                         coords,
                         SimplifyArgs(tolerance, algorithm, lookahead,
                                      preserve_topology, keep_points_on,
                                      simplification_installed)) :
           IF IsException(choice)
           THEN /\ result' = choice
                /\ UNCHANGED idx_to_keep_arr
           ELSE /\ idx_to_keep_arr' = choice.coords
                /\ result' = CoordsList(
                       CoordsToKeep(coords, choice.coords,
                                    CoordsOnBorderIdx(coords, keep_points_on)))
    /\ pc' = "done"
    /\ UNCHANGED <<op, coords, tolerance, lookahead, window_size, mask,
                   window_start, window_end, all_points_in_tolerance, ready,
                   geometry, geometry_list, primitivetype, min_area_to_keep,
                   algorithm, preserve_topology, keep_points_on,
                   simplification_installed, coords_simplified, result_geom>>

RetentionNext == SimplifyCoords

RetentionSpec == RetentionInit /\ [][RetentionNext]_vars

----------------------------------------------------------------------------
(* remove_inner_rings *)

RECURSIVE ShoelaceFrom(_, _)
ShoelaceFrom(ring, i) ==
    IF i >= Len(ring) THEN 0
    ELSE ring[i][1] * ring[i + 1][2] - ring[i + 1][1] * ring[i][2]
         + ShoelaceFrom(ring, i + 1)

\* Twice abs(sh_ops.Polygon(ring).area)
TwiceRingArea(ring) == Abs(ShoelaceFrom(ring, 1))

RingIsSmallMutant(ring, min_area) == TwiceRingArea(ring) < 2 * min_area

\* line 298: abs(sh_ops.Polygon(ring).area) <= min_area_to_keep
RingIsSmall(ring, min_area) == TwiceRingArea(ring) <= 2 * min_area

\* lines 282-307: the inline function remove_inner_rings_polygon
remove_inner_rings_polygon(geom_poly, min_area) ==
    IF min_area = {} \/ min_area = {0}
    THEN IF Len(geom_poly.interiors) = 0
         THEN geom_poly
         ELSE Polygon(geom_poly.coords, <<>>)
    ELSE LET t == CHOOSE v \in min_area : TRUE
             ring_coords_to_keep ==
                 SelectSeq(geom_poly.interiors,
                           LAMBDA ring : ~RingIsSmall(ring, t))
             small_ring_found ==
                 \E i \in 1..Len(geom_poly.interiors) :
                     RingIsSmall(geom_poly.interiors[i], t)
         IN  IF small_ring_found = FALSE
             THEN geom_poly
             ELSE Polygon(geom_poly.coords, ring_coords_to_keep)

\* lines 273-319
remove_inner_rings(g, min_area) ==
    IF g = None
    THEN Raise("Input geom parameter cannot be None")
    ELSE IF g.tag = "Polygon"
    THEN remove_inner_rings_polygon(g, min_area)
    ELSE IF g.tag = "MultiPolygon"
    THEN MultiPolygon([i \in 1..Len(g.parts) |->
                           remove_inner_rings_polygon(g.parts[i], min_area)])
    ELSE Raise("remove_inner_rings is not possible with geometrytype")

\* A shell with three holes of area 1, 2 (clockwise) and 3
Shell == <<<<0, 0>>, <<6, 0>>, <<6, 5>>, <<0, 5>>, <<0, 0>>>>
HoleA == <<<<1, 1>>, <<2, 1>>, <<2, 2>>, <<1, 2>>, <<1, 1>>>>
HoleB == <<<<3, 1>>, <<3, 2>>, <<5, 2>>, <<5, 1>>, <<3, 1>>>>
HoleC == <<<<1, 3>>, <<4, 3>>, <<4, 4>>, <<1, 4>>, <<1, 3>>>>

\* The holes of a polygon are distinct rings
DistinctSeqsUpTo(S, n) ==
    {ss \in SeqsUpTo(S, n) :
         \A i \in 1..Len(ss) : \A j \in 1..Len(ss) : ss[i] = ss[j] => i = j}

RingPolygons ==
    {Polygon(Shell, holes) : holes \in DistinctSeqsUpTo({HoleA, HoleB, HoleC},
                                                       MaxRings)}

RingGeometries ==
    {None, LineAB}
    \cup RingPolygons
    \cup {MultiPolygon(parts) : parts \in SeqsUpTo(RingPolygons, MaxParts)}

RingsInit ==
    /\ op = "remove_inner_rings"
    /\ pc = "start"
    /\ geometry \in RingGeometries
    /\ min_area_to_keep \in {{}} \cup {{t} : t \in 0..MaxThreshold}
    /\ geometry_list = <<>>
    /\ primitivetype = "POLYGON"
    /\ algorithm = "rdp"
    /\ preserve_topology = TRUE
    /\ keep_points_on = {}
    /\ simplification_installed = TRUE
    /\ coords_simplified = None
    /\ result_geom = None
    /\ result = None
    /\ LangIdle

\* lines 273-319
RemoveInnerRings ==
    /\ op = "remove_inner_rings" /\ pc = "start"
    /\ result' = remove_inner_rings(geometry, min_area_to_keep)
    /\ pc' = "done"
    /\ UNCHANGED <<op, geometry, geometry_list, primitivetype,
                   min_area_to_keep, algorithm, preserve_topology,
                   keep_points_on, simplification_installed,
                   coords_simplified, result_geom, lang_vars>>

RingsNext == RemoveInnerRings

RingsSpec == RingsInit /\ [][RingsNext]_vars

----------------------------------------------------------------------------
(* Properties of simplify_coords_lang_idx *)

LangDone == op = "simplify_coords_lang_idx" /\ pc = "done"

StrictlyIncreasing(s) == \A i \in 1..(Len(s) - 1) : s[i] < s[i + 1]

Contains(s, v) == \E i \in 1..Len(s) : s[i] = v

\* C1: for N >= 1 points, a tolerance >= 0 and a lookahead that is -1 or
\* positive, the returned index list contains 0 and N-1, is strictly
\* increasing and holds only indices of 0..N-1.
C1_LangIndexList ==
    (LangDone /\ lookahead # 0) =>
        /\ Contains(idx_to_keep_arr, 0)
        /\ Contains(idx_to_keep_arr, Len(coords) - 1)
        /\ StrictlyIncreasing(idx_to_keep_arr)
        /\ \A i \in 1..Len(idx_to_keep_arr) :
               idx_to_keep_arr[i] \in 0..(Len(coords) - 1)

\* A run that dropped a point and kept an interior one
C1_Witness ==
    /\ LangDone /\ lookahead # 0
    /\ Len(coords) >= 4
    /\ Len(idx_to_keep_arr) = 3

\* C2: the sliding window loop terminates for every sequence of N >= 1
\* points, every tolerance >= 0 and every lookahead that is -1 or >= 0.
C2_LangTerminates == <>(op = "simplify_coords_lang_idx" /\ pc = "done")

\* The loop does terminate for every lookahead other than 0.
LangTerminatesPositiveLookahead == (lookahead # 0) => <>LangDone

\* With lookahead 0 and two or more points the window never moves.
LangStuckAtZero ==
    (pc \in {"check", "move"} /\ lookahead = 0 /\ Len(coords) >= 2) =>
        (window_start = 0 /\ window_end = 0 /\ ~ready)

----------------------------------------------------------------------------
(* Properties of collect *)

CollectDone == op = "collect" /\ pc = "done"

NonNull(list) == \A i \in 1..Len(list) : list[i] # None

UniformTag(list) == \A i \in 1..Len(list) : list[i].tag = list[1].tag

\* C5: for a list of two or more non-null geometries collect raises no
\* error; a uniform tag of the Point bucket gives a MultiPoint, of the
\* LineString bucket a MultiLineString, of the Polygon bucket a MultiPolygon
\* (uniform Multi* tags included), differing tags give a GeometryCollection;
\* the result holds all elements in input order.
C5_CollectDispatch ==
    (CollectDone /\ Len(geometry_list) >= 2 /\ NonNull(geometry_list)) =>
        /\ ~IsException(result)
        /\ result.parts = geometry_list
        /\ result.tag =
               IF ~UniformTag(geometry_list) THEN "GeometryCollection"
               ELSE LET bucket == to_primitivetype(Upper(geometry_list[1].tag))
                    IN  IF bucket = "POINT" THEN "MultiPoint"
                        ELSE IF bucket = "LINESTRING" THEN "MultiLineString"
                        ELSE IF bucket = "POLYGON" THEN "MultiPolygon"
                        ELSE "GeometryCollection"

\* The dispatch does hold when the uniform tag is not a Multi* tag.
CollectDispatchSingleTags ==
    (/\ CollectDone /\ Len(geometry_list) >= 2 /\ NonNull(geometry_list)
     /\ ~(/\ UniformTag(geometry_list)
          /\ geometry_list[1].tag \in
                 {"MultiPoint", "MultiLineString", "MultiPolygon"})) =>
        /\ ~IsException(result)
        /\ result.parts = geometry_list
        /\ result.tag =
               IF ~UniformTag(geometry_list) THEN "GeometryCollection"
               ELSE LET bucket == to_primitivetype(Upper(geometry_list[1].tag))
                    IN  IF bucket = "POINT" THEN "MultiPoint"
                        ELSE IF bucket = "LINESTRING" THEN "MultiLineString"
                        ELSE IF bucket = "POLYGON" THEN "MultiPolygon"
                        ELSE "GeometryCollection"

NonNullCount(list) == Cardinality({i \in 1..Len(list) : list[i] # None})

\* C6: collect filters the null elements out of its list; if nothing
\* remains it raises its error and returns no value, and if exactly one
\* element remains it returns that element itself, not wrapped.
C6_CollectSmallLists ==
    CollectDone =>
        /\ NonNullCount(geometry_list) = 0 =>
               result = Raise("geometry_list should not be None or Empty")
        /\ NonNullCount(geometry_list) = 1 =>
               \E i \in 1..Len(geometry_list) :
                   /\ geometry_list[i] # None
                   /\ result = geometry_list[i]
        /\ NonNullCount(geometry_list) >= 2 =>
               (~IsException(result) =>
                    /\ Len(result.parts) = NonNullCount(geometry_list)
                    /\ NonNull(result.parts))

\* A list with nulls around one multi-part element, returned unwrapped
C6_Witness ==
    /\ CollectDone
    /\ Len(geometry_list) = 3
    /\ NonNullCount(geometry_list) = 1
    /\ result = MultiPolygonAB

----------------------------------------------------------------------------
(* Properties of collection_extract *)

Bucket(g) == to_primitivetype(Upper(g.tag))

IsMultiPart(g) ==
    g.tag \in {"MultiPoint", "MultiLineString", "MultiPolygon",
               "GeometryCollection"}

RECURSIVE LeafParts(_)
LeafParts(g) ==
    IF IsMultiPart(g)
    THEN UNION {LeafParts(g.parts[i]) : i \in 1..Len(g.parts)}
    ELSE {g}

\* C3: collection_extract on a GeometryCollection hands only the non-empty
\* extraction results of its children to collect: with exactly one child of
\* the requested primitive type the result is that child, unwrapped, and
\* with no such child it is the empty geometry of the target type.
C3_ExtractFromCollection ==
    (/\ op = "collection_extract" /\ pc = "done"
     /\ geometry.tag = "GeometryCollection"
     /\ \A i \in 1..Len(geometry.parts) :
            geometry.parts[i].tag # "GeometryCollection") =>
        LET matching == SelectSeq(geometry.parts,
                                  LAMBDA c : Bucket(c) = primitivetype)
        IN  /\ Len(matching) = 1 => result = matching[1]
            /\ Len(matching) = 0 => result = EmptyOf(primitivetype)

\* C4: every leaf part of collection_extract(g, p) has primitive type p,
\* and collection_extract with p on that result succeeds and returns the
\* same value.
C4_ExtractIdempotent ==
    /\ (op = "collection_extract" /\ pc = "done") =>
           /\ ~IsException(result)
           /\ \A leaf \in LeafParts(result) : Bucket(leaf) = primitivetype
    /\ (op = "collection_extract" /\ pc = "again") =>
           /\ ~IsException(result)
           /\ result = geometry

\* Whenever the first call returns a value, C4 holds of that value.
ExtractIdempotentWhenReturned ==
    /\ (op = "collection_extract" /\ pc = "done" /\ ~IsException(result)) =>
           \A leaf \in LeafParts(result) : Bucket(leaf) = primitivetype
    /\ (op = "collection_extract" /\ pc = "again") =>
           /\ ~IsException(result)
           /\ result = geometry

\* The first call raises only the error of collect on a uniform Multi* list.
ExtractRaisesOnlyInCollect ==
    (op = "collection_extract" /\ pc = "done" /\ IsException(result)) =>
        result = Raise("Unsupported geometry type")

----------------------------------------------------------------------------
(* Properties of simplify_ext *)

SimplifyDone == op = "simplify_ext" /\ pc = "done"

\* C7: with preserve_topology true simplify_polygon yields a Polygon or a
\* MultiPolygon whatever valid geometry make_valid returned for the rebuilt
\* polygon: the assertion of collection_extract_polygon never fails and
\* collect never raises.
C7_SimplifyPolygonType ==
    (/\ SimplifyDone
     /\ geometry.tag = "Polygon"
     /\ algorithm \in SimplifyAlgorithm
     /\ simplification_installed
     /\ preserve_topology) =>
        result_geom.tag \in {"Polygon", "MultiPolygon"}

\* The assertion is the only failure of simplify_polygon in the model.
SimplifyPolygonFailsOnlyInAssert ==
    (/\ SimplifyDone
     /\ geometry.tag = "Polygon"
     /\ algorithm \in SimplifyAlgorithm
     /\ simplification_installed
     /\ preserve_topology
     /\ result_geom.tag \notin {"Polygon", "MultiPolygon"}) =>
        result_geom = Raise("AssertionError")

RECURSIVE HasSupportedTags(_)
HasSupportedTags(g) ==
    /\ g.tag \in {"Point", "LineString", "Polygon", "MultiPoint",
                  "MultiLineString", "MultiPolygon", "GeometryCollection"}
    /\ \A i \in 1..Len(g.parts) : HasSupportedTags(g.parts[i])

\* C8: for a MultiLineString, MultiPolygon or GeometryCollection with any
\* number of children of supported tags, simplify_ext with a supported
\* algorithm returns a geometry and raises no error.
C8_SimplifyMultiPartReturns ==
    (/\ SimplifyDone
     /\ geometry.tag \in {"MultiLineString", "MultiPolygon",
                          "GeometryCollection"}
     /\ HasSupportedTags(geometry)
     /\ algorithm \in SimplifyAlgorithm
     /\ simplification_installed) =>
        ~IsException(result)

\* The errors a multi-part geometry raises under a supported algorithm
SimplifyMultiPartErrors ==
    (/\ SimplifyDone
     /\ geometry.tag \in {"MultiLineString", "MultiPolygon",
                          "GeometryCollection"}
     /\ HasSupportedTags(geometry)
     /\ algorithm \in SimplifyAlgorithm
     /\ simplification_installed
     /\ IsException(result)) =>
        result \in {Raise("geometry_list should not be None or Empty"),
                    Raise("Unsupported geometry type"),
                    Raise("AssertionError")}

\* The geometries for which simplify_ext runs the retention step
\* simplify_coords itself
ReachesRetention(g) ==
    \/ g.tag = "Polygon"
    \/ g.tag = "LineString" /\ Len(g.coords) > 2

RECURSIVE HasRetentionPart(_)
HasRetentionPart(g) ==
    \/ ReachesRetention(g)
    \/ /\ g.tag \in {"MultiLineString", "MultiPolygon", "GeometryCollection"}
       /\ \E i \in 1..Len(g.parts) : HasRetentionPart(g.parts[i])

\* C9 as stated: with an algorithm that is not RDP, LANG or VW simplify_ext
\* raises the unsupported algorithm error for every non-null geometry of a
\* supported tag, Point, MultiPoint and short LineStrings included.
C9_UnsupportedAlgorithmAlways ==
    (/\ SimplifyDone
     /\ algorithm \notin SimplifyAlgorithm
     /\ geometry # None
     /\ HasSupportedTags(geometry)) =>
        result = Raise("Unsupported algorithm")

\* C9 as amended: with an algorithm that is not RDP, LANG or VW simplify_ext
\* raises the unsupported algorithm error for every Polygon and every
\* LineString of more than 2 coordinates; it returns the geometry for a
\* Point, a MultiPoint and a LineString of at most 2 coordinates; for a
\* multi-part geometry it returns no geometry if a part is such a Polygon
\* or LineString and does not raise that error otherwise.
C9_UnsupportedAlgorithmAtRetention ==
    (/\ SimplifyDone
     /\ algorithm \notin SimplifyAlgorithm
     /\ geometry # None
     /\ HasSupportedTags(geometry)) =>
        /\ ReachesRetention(geometry) =>
               result = Raise("Unsupported algorithm")
        /\ geometry.tag \in {"Point", "MultiPoint"} => result = geometry
        /\ (geometry.tag = "LineString" /\ Len(geometry.coords) <= 2) =>
               result \in make_valid(geometry)
        /\ HasRetentionPart(geometry) => IsException(result)
        /\ ~HasRetentionPart(geometry) =>
               result # Raise("Unsupported algorithm")

\* A polygon simplified under an unknown algorithm
C9_Witness ==
    /\ SimplifyDone
    /\ algorithm \notin SimplifyAlgorithm
    /\ geometry = PolygonH
    /\ result = Raise("Unsupported algorithm")

----------------------------------------------------------------------------
(* Properties of remove_inner_rings *)

RingsDone == op = "remove_inner_rings" /\ pc = "done"

\* Area of hole > t, in twice the area
LargerThan(ring, t) == TwiceRingArea(ring) > 2 * t

\* The first part of C10 for one polygon P and its result R: R keeps the
\* exterior of P; with a threshold of None or 0 it has no interior ring,
\* with a threshold t > 0 exactly the rings of area > t in their order.
RingsFiltered(P, R, min_area) ==
    /\ R.tag = "Polygon"
    /\ R.coords = P.coords
    /\ (min_area = {} \/ min_area = {0}) => R.interiors = <<>>
    /\ \A t \in min_area :
           t > 0 => R.interiors =
                        SelectSeq(P.interiors, LAMBDA ring : LargerThan(ring, t))

\* A threshold at or above the largest hole area strips all holes.
StripsAll(P, R, min_area) ==
    \A t \in min_area :
        (\A i \in 1..Len(P.interiors) : ~LargerThan(P.interiors[i], t)) =>
            R.interiors = <<>>

\* A threshold below the smallest hole area returns P unchanged.
KeepsAll(P, R, min_area) ==
    \A t \in min_area :
        (\A i \in 1..Len(P.interiors) : LargerThan(P.interiors[i], t)) =>
            R = P

\* The same for a positive threshold only
KeepsAllPositive(P, R, min_area) ==
    \A t \in min_area :
        (t > 0 /\ \A i \in 1..Len(P.interiors) : LargerThan(P.interiors[i], t))
            => R = P

\* C10 as stated: remove_inner_rings keeps the exterior and, for None or 0,
\* no interior ring, for t > 0 exactly the interior rings of area > t in
\* their order; a threshold >= the largest hole area strips all holes and a
\* threshold < the smallest hole area returns P unchanged; for a
\* MultiPolygon the same holds child by child, in the same order.
C10_RingFilter ==
    RingsDone =>
        /\ geometry.tag = "Polygon" =>
               /\ RingsFiltered(geometry, result, min_area_to_keep)
               /\ StripsAll(geometry, result, min_area_to_keep)
               /\ KeepsAll(geometry, result, min_area_to_keep)
        /\ geometry.tag = "MultiPolygon" =>
               /\ result.tag = "MultiPolygon"
               /\ Len(result.parts) = Len(geometry.parts)
               /\ \A i \in 1..Len(geometry.parts) :
                      /\ RingsFiltered(geometry.parts[i], result.parts[i],
                                       min_area_to_keep)
                      /\ StripsAll(geometry.parts[i], result.parts[i],
                                   min_area_to_keep)
                      /\ KeepsAll(geometry.parts[i], result.parts[i],
                                  min_area_to_keep)

\* C10 as amended: as C10, but only a threshold t > 0 that is below the
\* smallest hole area returns P unchanged (a threshold of 0 strips all
\* holes).
C10_RingFilterPositive ==
    RingsDone =>
        /\ geometry.tag = "Polygon" =>
               /\ RingsFiltered(geometry, result, min_area_to_keep)
               /\ StripsAll(geometry, result, min_area_to_keep)
               /\ KeepsAllPositive(geometry, result, min_area_to_keep)
        /\ geometry.tag = "MultiPolygon" =>
               /\ result.tag = "MultiPolygon"
               /\ Len(result.parts) = Len(geometry.parts)
               /\ \A i \in 1..Len(geometry.parts) :
                      /\ RingsFiltered(geometry.parts[i], result.parts[i],
                                       min_area_to_keep)
                      /\ StripsAll(geometry.parts[i], result.parts[i],
                                   min_area_to_keep)
                      /\ KeepsAllPositive(geometry.parts[i], result.parts[i],
                                          min_area_to_keep)

\* A polygon that loses its middle hole and keeps the other two in order
C10_Witness ==
    /\ RingsDone
    /\ geometry = Polygon(Shell, <<HoleC, HoleA, HoleB>>)
    /\ min_area_to_keep = {1}
    /\ result = Polygon(Shell, <<HoleC, HoleB>>)

----------------------------------------------------------------------------
(* Properties of the retention step *)

RetentionDone ==
    op = "simplify_coords" /\ pc = "done" /\ ~IsException(result)

\* The indices of the coordinates whose point intersects keep_points_on
BorderIndices ==
    {i \in 0..(Len(coords) - 1) :
         \E covered \in keep_points_on : coords[i + 1] \in covered}

\* The k-th smallest element of a set of numbers
KthSmallest(S, k) ==
    CHOOSE u \in S : Cardinality({v \in S : v < u}) = k - 1

\* C11: the coordinates returned by simplify_coords contain every original
\* coordinate whose point intersects keep_points_on, whatever indices the
\* algorithm selected; they are the original sequence at the ascending
\* union, without duplicates, of both index sets, so a subsequence of the
\* input in its order.
C11_KeepPointsOnRetained ==
    RetentionDone =>
        LET kept == Range(idx_to_keep_arr) \cup BorderIndices
        IN  /\ \A i \in BorderIndices : Contains(result.coords, coords[i + 1])
            /\ Len(result.coords) = Cardinality(kept)
            /\ \A k \in 1..Len(result.coords) :
                   result.coords[k] = coords[KthSmallest(kept, k) + 1]

\* The selection dropped an interior point that keep_points_on retains
C11_Witness ==
    /\ RetentionDone
    /\ algorithm = "rdp"
    /\ Len(coords) = 4
    /\ idx_to_keep_arr = <<0, 3>>
    /\ BorderIndices = {0, 2}
    /\ Len(result.coords) = 3

----------------------------------------------------------------------------
(* Properties of simplify_linestring *)

SimplifiedLine ==
    /\ SimplifyDone
    /\ geometry.tag = "LineString"
    /\ preserve_topology
    /\ algorithm \in SimplifyAlgorithm

\* C12 as stated: for a LineString of at most 2 coordinates simplify_ext
\* with preserve_topology true returns a line with the same coordinates for
\* every tolerance and every algorithm of RDP, LANG and VW and raises no
\* error; for a longer line a retention result of fewer than 2 coordinates
\* is discarded and the coordinates of the original line are returned.
C12_ShortLineUnchanged ==
    SimplifiedLine =>
        /\ Len(geometry.coords) <= 2 =>
               /\ ~IsException(result)
               /\ result.tag = "LineString"
               /\ result.coords = geometry.coords
        /\ (/\ Len(geometry.coords) > 2
            /\ coords_simplified # None
            /\ Len(coords_simplified.coords) < 2) =>
               /\ result.tag = "LineString"
               /\ result.coords = geometry.coords

\* C12 as amended: when RDP or VW is asked for and the package
\* simplification does not import, an ImportError is raised; otherwise no
\* error is raised, a LineString of at most 2 coordinates skips the
\* retention step and a longer one whose retention result has fewer than 2
\* coordinates is replaced by the original line: in both cases the line
\* itself goes to make_valid, which returns it unchanged when it is valid.
C12_ShortLineThroughMakeValid ==
    SimplifiedLine =>
        IF algorithm \in {"rdp", "vw"} /\ ~simplification_installed
        THEN result = Raise("ImportError")
        ELSE /\ ~IsException(result)
             /\ Len(geometry.coords) <= 2 =>
                    /\ coords_simplified = None
                    /\ result_geom = geometry
                    /\ IsValidLine(geometry) => result = geometry
             /\ (Len(geometry.coords) > 2
                    /\ Len(coords_simplified.coords) < 2) =>
                    /\ result_geom = geometry
                    /\ IsValidLine(geometry) => result = geometry
             /\ (Len(geometry.coords) > 2
                    /\ Len(coords_simplified.coords) >= 2) =>
                    result_geom = LineString(coords_simplified.coords)

\* A three point line whose retention result is a single coordinate
C12_Witness ==
    /\ SimplifiedLine
    /\ geometry = LineABC
    /\ coords_simplified # None
    /\ Len(coords_simplified.coords) = 1
    /\ result = LineABC

\* A two point line returned as it is
ShortLineReturned ==
    /\ SimplifiedLine
    /\ geometry = LineAB
    /\ algorithm = "rdp"
    /\ result = LineAB

----------------------------------------------------------------------------
(* Properties of the window of simplify_coords_lang_idx *)

LangWindowSize ==
    IF lookahead = -1 THEN Len(coords) - 1 ELSE Min(lookahead, Len(coords) - 1)

LangApplies ==
    /\ op = "simplify_coords_lang_idx"
    /\ Len(coords) >= 2
    /\ lookahead # 0

\* Points a and b are retained one after the other, the points between
\* them are dropped
DroppedBetween(a, b) ==
    \A i \in (a + 1)..(b - 1) :
        LET distance == WindowDistance(coords, i, a, b)
        IN  /\ distance.den2 > 0
            /\ distance.num * distance.num
                   <= tolerance * tolerance * distance.den2
            /\ tolerance = 0 => distance.num = 0

\* C13: in the result of simplify_coords_lang_idx (N >= 2, lookahead -1 or
\* >= 1) two consecutive retained indices a < b are at most the window size
\* apart, and every point strictly between them lies at a defined distance
\* of at most tolerance from the line through a and b, so a and b do not
\* coincide when b > a + 1 and with tolerance 0 a dropped point is collinear
\* with its retained neighbours.
C13_LangRetainedPairs ==
    (LangApplies /\ pc = "done") =>
        \A k \in 1..(Len(idx_to_keep_arr) - 1) :
            LET a == idx_to_keep_arr[k]
                b == idx_to_keep_arr[k + 1]
            IN  /\ a < b
                /\ b - a <= LangWindowSize
                /\ DroppedBetween(a, b)
                /\ b > a + 1 => coords[a + 1] # coords[b + 1]

\* Two points dropped within tolerance 1 between the retained 0 and 3
C13_Witness ==
    /\ LangApplies /\ pc = "done"
    /\ coords = <<(<<0, 0>>), (<<1, 1>>), (<<1, 0>>), (<<2, 0>>)>>
    /\ tolerance = 1
    /\ idx_to_keep_arr = <<0, 3>>

\* The start of an iteration of the while loop
LangIterationStart == LangApplies /\ pc = "check" /\ ~ready

LangWindowInRange ==
    /\ 0 <= window_start
    /\ window_start < window_end
    /\ window_end <= Len(coords) - 1
    /\ window_end - window_start <= LangWindowSize
    /\ mask[window_start]

\* C14: at the start of every iteration of the Lang loop (N >= 2, lookahead
\* -1 or >= 1) 0 <= window_start < window_end <= N-1 and the window is at
\* most the window size wide; window_start is a retained index and never
\* decreases, so every index read in the iteration and the index marked at
\* its end are within 0..N-1.
C14_LangWindow ==
    /\ [](LangIterationStart => LangWindowInRange)
    /\ []((LangApplies /\ pc = "move") =>
              /\ LangWindowInRange
              /\ (window_start..window_end) \subseteq DOMAIN mask)
    /\ [][LangApplies => window_start' >= window_start]_vars

\* An iteration that starts after the window was moved and then shrunk
C14_Witness ==
    /\ LangIterationStart
    /\ Len(coords) = 4
    /\ window_size = 2
    /\ window_start = 1
    /\ window_end = 2
    /\ mask[1]

====
